---------------------------- MODULE Spec2Model ----------------------------
(***************************************************************************)
(* The four standalone scripts of the repository as one state machine.     *)
(*                                                                         *)
(*   1_gen-java.py, gen-java.py, gen-english.py : the batch generation     *)
(*       driver, a function xxx(query) and a straight-line list of calls   *)
(*       of it at module level;                                            *)
(*   yb.py : download_youtube_video_1080p_mp4(url) and its single call.    *)
(*                                                                         *)
(* A behaviour is one script run in one working directory, possibly        *)
(* followed by further runs of the same script in the same directory.      *)
(* The external collaborators (the generation service behind               *)
(* client.models.generate_content, yt_dlp) are the environment: a          *)
(* call-recording stub whose answers are fixed by `stub`, and a download   *)
(* that returns or raises.  The call-site lists are abstracted to bounded  *)
(* lists over the first call-site topics of each script; the working       *)
(* directory is flat and the open() of a file in it is taken to succeed.   *)
(***************************************************************************)
EXTENDS Integers, Sequences, FiniteSets, TLC

VARIABLES
    script,     \* the script being run
    topics,     \* the arguments of the module-level calls, in source order
    stub,       \* the behaviour of the external generation service
    run,        \* number of the current run of the script
    pc,         \* position of the interpreter
    i,          \* index of the module-level call being (or next to be) executed
    prompt,     \* local `prompt` of xxx
    response,   \* local `response` of xxx
    filename,   \* local `filename` of xxx
    ret,        \* value returned by the last completed call
    error,      \* the exception that ended the run, "none" if there is none
    fs,         \* the working directory: file name -> content
    prevFs,     \* fs as the previous run left it
    fsBefore,   \* fs when the current call of xxx began
    nreq,       \* requests the service has received so far (over all runs)
    calls,      \* payloads the service received in this run, in order
    replies,    \* responses the service returned in this run, in order
    raised,     \* the last exception a collaborator raised in this run, or "none"
    written,    \* file names whose write completed in this run, in order
    startAt,    \* time at which each call of this run began
    started,    \* blocking operations begun in this run
    ended,      \* blocking operations finished in this run
    stdout,     \* lines printed in this run
    now         \* wall-clock time, in seconds

vars == << script, topics, stub, run, pc, i, prompt, response, filename, ret,
           error, fs, prevFs, fsBefore, nreq, calls, replies, raised, written,
           startAt, started, ended, stdout, now >>

---------------------------------------------------------------------------
(* Bounds of the model. *)

\* longest list of module-level calls of a batch script
MaxTopics == 3

\* number of times the script is run in the same directory
MaxRuns == 2

---------------------------------------------------------------------------
(* The scripts and their constants. *)

BatchScripts == {"1_gen-java.py", "gen-java.py", "gen-english.py"}

Scripts == BatchScripts \cup {"yb.py"}

\* the fixed text each script appends to the query
Template(s) ==
    CASE s = "1_gen-java.py" ->
           "\n\n    IN sql oracle\n\n    give me detail and have examples (include input, output)\n    \n    format md file\n    "
      [] s = "gen-java.py" ->
           "\n    \n    in java \n    \n    give me detail and have examples (include input, output)\n    \n    format md file\n    "
      [] s = "gen-english.py" ->
           "\n    \n    we have some words:\n\n    superset , utility, detection, launcher, Archive , disassembler\n    wizard, Pattern , Sealed , Essential , Visual , profiling , dump , analyzer\n    specific, patch  , regularly, independent , allocation , sandboxing, compilation,\n    Architecture, several  , Bootstrap , directory, classpath, Metaspace \n    among , newer , Young , Eden Space, Survivor , Permanent , metadata, frames, partial \n\n\n    we want to translate these words to vietnamese with table include column:\n    english, pronounciation, definition, example, vietnamese\n\n    format md file\n    "

\* the scripts whose xxx calls time.sleep after the write
PacedScripts == {"1_gen-java.py", "gen-english.py"}

\* the argument of time.sleep, in seconds
Delay(s) ==
    CASE s = "1_gen-java.py" -> 2
      [] s = "gen-english.py" -> 10

\* the first module-level call sites of each script
CallSites(s) ==
    CASE s = "1_gen-java.py" -> << "function", "procedure" >>
      [] s = "gen-java.py" ->
           << "try- with-resources statement", "Rules while handling exceptions" >>
      [] s = "gen-english.py" -> << "e2" >>

v == "3GZa9x9vioQ"

video_url == "https://www.youtube.com/watch?v=" \o v

\* default of the parameter output_path
output_path == "D:/"

---------------------------------------------------------------------------
(* Pure parts of xxx. *)

\* prompt = query + '''...'''
Prompt(s, query) == query \o Template(s)

\* variant: the suffix is forgotten
FileNameNoSuffix(query) == query

\* filename = f"{query}.md"
FileName(query) == query \o ".md"

\* variant: the file is opened with "a", which keeps what it holds
OpenA(dir, name) ==
    [n \in (DOMAIN dir) \cup {name} |->
        IF n \in DOMAIN dir THEN dir[n] ELSE ""]

\* open(filename, "w"): the file exists afterwards and is empty
OpenW(dir, name) ==
    [n \in (DOMAIN dir) \cup {name} |-> IF n = name THEN "" ELSE dir[n]]

\* f.write(text) on the handle just opened: text goes in at the file position
WriteText(dir, name, text) ==
    [dir EXCEPT ![name] = dir[name] \o text]

\* where xxx goes on after the with block
AfterWrite(s) == IF s \in PacedScripts THEN "sleep" ELSE "return"

\* variant: the delay runs on a timer and the caller goes on at once
AfterSleepCallNonBlocking == "return"

\* time.sleep blocks the caller until the delay has elapsed
AfterSleepCall == "sleeping"

\* the clock after time.sleep(d) that began at time t
WakeTime(t, d) == t + d

\* variant: every other call site is passed over
NextCallSiteSkips(k) == k + 2

\* the module-level statement executed after call site k
NextCallSite(k) == k + 1

---------------------------------------------------------------------------
(* The generation service: a stub that records its calls.  It answers      *)
(* request number stub.failAt (counted over the stub's life) with a        *)
(* failure of kind stub.kind and every other request with text: the echo   *)
(* of the payload, or a text that is new on every request.                 *)

NoResponse == [hasText |-> FALSE, text |-> ""]

FailKinds == {"APIError", "NoText"}

Stubs(n) ==
    { [mode |-> m, failAt |-> k, kind |-> e] :
        m \in {"echo", "fresh"}, k \in 1..(n * MaxRuns), e \in FailKinds }
    \cup { [mode |-> m, failAt |-> 0, kind |-> "none"] : m \in {"echo", "fresh"} }

ServiceFails(st, n) == st.failAt = n

ServiceText(st, n, payload) ==
    IF st.mode = "echo" THEN "STUB:" \o payload
    ELSE "GEN" \o ToString(n) \o ":" \o payload

---------------------------------------------------------------------------
(* yb.py: the exceptions yt_dlp raises and the handler of the function. *)

\* base class of each exception class
Base(e) ==
    CASE e = "DownloadError" -> "YoutubeDLError"
      [] e = "YoutubeDLError" -> "Exception"
      [] e = "OSError" -> "Exception"
      [] e = "Exception" -> "BaseException"
      [] OTHER -> "BaseException"

RECURSIVE IsInstance(_, _)
IsInstance(e, cls) ==
    IF e = cls THEN TRUE
    ELSE IF e = "BaseException" THEN FALSE
    ELSE IsInstance(Base(e), cls)

DownloadErrors == {"DownloadError", "OSError"}

\* variant: except OSError as e
HandlesOSErrorOnly(e) == IsInstance(e, "OSError")

\* except Exception as e
Handles(e) == IsInstance(e, "Exception")

---------------------------------------------------------------------------
(* Blocking operations, for the record of what is in progress. *)

Op(kind, k) == [op |-> kind, call |-> k]

InProgress == started \ ended

EmptyDir == [n \in {} |-> ""]

RECURSIVE ListsUpTo(_, _)
ListsUpTo(S, n) ==
    IF n = 0 THEN { << >> }
    ELSE LET shorter == ListsUpTo(S, n - 1)
         IN  shorter \cup { Append(l, x) : l \in shorter, x \in S }

Range(s) == { s[k] : k \in DOMAIN s }

TopicLists(s) ==
    IF s = "yb.py" THEN { << video_url >> }
    ELSE ListsUpTo(Range(CallSites(s)), MaxTopics)

---------------------------------------------------------------------------
(* The state machine. *)

Init ==
    /\ script \in Scripts
    /\ topics \in TopicLists(script)
    /\ stub \in (IF script = "yb.py" THEN Stubs(0) ELSE Stubs(Len(topics)))
    /\ run = 1
    /\ pc = "main"
    /\ i = 1
    /\ prompt = ""
    /\ response = NoResponse
    /\ filename = ""
    /\ ret = ""
    /\ error = "none"
    /\ fs = EmptyDir
    /\ prevFs = EmptyDir
    /\ fsBefore = EmptyDir
    /\ nreq = 0
    /\ calls = << >>
    /\ replies = << >>
    /\ raised = "none"
    /\ written = << >>
    /\ startAt = << >>
    /\ started = {}
    /\ ended = {}
    /\ stdout = << >>
    /\ now = 0

\* xxx(topics[i]) up to the point where generate_content has been called
CallXxx ==
    /\ pc = "main"
    /\ script \in BatchScripts
    /\ i <= Len(topics)
    /\ prompt' = Prompt(script, topics[i])
    /\ nreq' = nreq + 1
    /\ calls' = Append(calls, prompt')
    /\ startAt' = Append(startAt, now)
    /\ started' = started \cup {Op("request", i)}
    /\ fsBefore' = fs
    /\ pc' = "generate_content"
    /\ UNCHANGED << script, topics, stub, run, i, response, filename, ret,
                    error, fs, prevFs, written, ended, stdout, now, replies,
                    raised >>

\* generate_content returns a response; its text may be missing
GenerateContentReturns ==
    /\ pc = "generate_content"
    /\ \/ ~ServiceFails(stub, nreq)
       \/ stub.kind = "NoText"
    /\ response' = IF ServiceFails(stub, nreq) THEN NoResponse
                   ELSE [hasText |-> TRUE, text |-> ServiceText(stub, nreq, prompt)]
    /\ replies' = Append(replies, response')
    /\ ended' = ended \cup {Op("request", i)}
    /\ pc' = "open"
    /\ UNCHANGED << script, topics, stub, run, i, prompt, filename, ret, error,
                    fs, prevFs, fsBefore, nreq, calls, written, startAt,
                    started, stdout, now, raised >>

\* generate_content raises; nothing in xxx or at module level catches it
GenerateContentRaises ==
    /\ pc = "generate_content"
    /\ ServiceFails(stub, nreq)
    /\ stub.kind = "APIError"
    /\ raised' = "APIError"
    /\ error' = "APIError"
    /\ ended' = ended \cup {Op("request", i)}
    /\ pc' = "crashed"
    /\ UNCHANGED << script, topics, stub, run, i, prompt, response, filename,
                    ret, fs, prevFs, fsBefore, nreq, calls, written, startAt,
                    started, stdout, now, replies >>

\* filename = f"{query}.md"; with open(filename, "w", encoding="utf-8") as f
OpenFile ==
    /\ pc = "open"
    /\ filename' = FileName(topics[i])
    /\ fs' = OpenW(fs, filename')
    /\ started' = started \cup {Op("write", i)}
    /\ pc' = "write"
    /\ UNCHANGED << script, topics, stub, run, i, prompt, response, ret, error,
                    prevFs, fsBefore, nreq, calls, written, startAt, ended,
                    stdout, now, replies, raised >>

\* variant: xxx goes on while the text is still in the handle's buffer
WriteFileUnflushed ==
    /\ pc = "write"
    /\ response.hasText
    /\ pc' = AfterWrite(script)
    /\ UNCHANGED << script, topics, stub, run, i, prompt, response, filename,
                    ret, error, fs, prevFs, fsBefore, nreq, calls, replies,
                    raised, written, startAt, started, ended, stdout, now >>

\* variant: a file that was there before the call gets its old content back
WriteFileKeepOld ==
    /\ pc = "write"
    /\ response.hasText
    /\ fs' = IF filename \in DOMAIN fsBefore
             THEN [fs EXCEPT ![filename] = fsBefore[filename]]
             ELSE WriteText(fs, filename, response.text)
    /\ written' = Append(written, filename)
    /\ ended' = ended \cup {Op("write", i)}
    /\ pc' = AfterWrite(script)
    /\ UNCHANGED << script, topics, stub, run, i, prompt, response, filename,
                    ret, error, prevFs, fsBefore, nreq, calls, replies, raised,
                    startAt, started, stdout, now >>

\* f.write(response.text) with a text, and the end of the with block
WriteFile ==
    /\ pc = "write"
    /\ response.hasText
    /\ fs' = WriteText(fs, filename, response.text)
    /\ written' = Append(written, filename)
    /\ ended' = ended \cup {Op("write", i)}
    /\ pc' = AfterWrite(script)
    /\ UNCHANGED << script, topics, stub, run, i, prompt, response, filename,
                    ret, error, prevFs, fsBefore, nreq, calls, startAt,
                    started, stdout, now, replies, raised >>

\* f.write(None) raises TypeError; the with block closes the file
WriteRaises ==
    /\ pc = "write"
    /\ ~response.hasText
    /\ raised' = "TypeError"
    /\ error' = "TypeError"
    /\ ended' = ended \cup {Op("write", i)}
    /\ pc' = "crashed"
    /\ UNCHANGED << script, topics, stub, run, i, prompt, response, filename,
                    ret, fs, prevFs, fsBefore, nreq, calls, written, startAt,
                    started, stdout, now, replies >>

\* print(f"End process {filename}"); time.sleep(...) is entered
SleepBegin ==
    /\ pc = "sleep"
    /\ stdout' = Append(stdout, "End process " \o filename)
    /\ started' = started \cup {Op("sleep", i)}
    /\ pc' = AfterSleepCall
    /\ UNCHANGED << script, topics, stub, run, i, prompt, response, filename,
                    ret, error, fs, prevFs, fsBefore, nreq, calls, written,
                    startAt, ended, now, replies, raised >>

\* time.sleep(...) returns; print("NEXT")
SleepEnd ==
    /\ pc = "sleeping"
    /\ now' = WakeTime(now, Delay(script))
    /\ ended' = ended \cup {Op("sleep", i)}
    /\ stdout' = Append(stdout, "NEXT")
    /\ pc' = "return"
    /\ UNCHANGED << script, topics, stub, run, i, prompt, response, filename,
                    ret, error, fs, prevFs, fsBefore, nreq, calls, written,
                    startAt, started, replies, raised >>

\* return filename; the module goes on to the next call site
Return ==
    /\ pc = "return"
    /\ ret' = filename
    /\ i' = NextCallSite(i)
    /\ pc' = "main"
    /\ UNCHANGED << script, topics, stub, run, prompt, response, filename,
                    error, fs, prevFs, fsBefore, nreq, calls, written, startAt,
                    started, ended, stdout, now, replies, raised >>

\* download_youtube_video_1080p_mp4(video_url) up to ydl.download([url])
CallDownload ==
    /\ pc = "main"
    /\ script = "yb.py"
    /\ i <= Len(topics)
    /\ startAt' = Append(startAt, now)
    /\ started' = started \cup {Op("download", i)}
    /\ pc' = "download"
    /\ UNCHANGED << script, topics, stub, run, i, prompt, response, filename,
                    ret, error, fs, prevFs, fsBefore, nreq, calls, written,
                    ended, stdout, now, replies, raised >>

\* ydl.download returns; the success message; the function returns None
DownloadReturns ==
    /\ pc = "download"
    /\ ended' = ended \cup {Op("download", i)}
    /\ stdout' = Append(stdout, "Video downloaded successfully to " \o output_path)
    /\ i' = NextCallSite(i)
    /\ pc' = "main"
    /\ UNCHANGED << script, topics, stub, run, prompt, response, filename, ret,
                    error, fs, prevFs, fsBefore, nreq, calls, written, startAt,
                    started, now, replies, raised >>

\* ydl.download raises e: the except clause, or the exception leaves the function
DownloadRaises ==
    /\ pc = "download"
    /\ \E e \in DownloadErrors :
          /\ raised' = e
          /\ ended' = ended \cup {Op("download", i)}
          /\ IF Handles(e)
             THEN /\ stdout' = Append(stdout, "An error occurred: " \o e)
                  /\ i' = NextCallSite(i)
                  /\ pc' = "main"
                  /\ error' = error
             ELSE /\ error' = e
                  /\ pc' = "crashed"
                  /\ UNCHANGED << stdout, i >>
    /\ UNCHANGED << script, topics, stub, run, prompt, response, filename, ret,
                    fs, prevFs, fsBefore, nreq, calls, written, startAt,
                    started, now, replies >>

\* the end of the module is reached: the process exits normally
Finish ==
    /\ pc = "main"
    /\ i > Len(topics)
    /\ pc' = "done"
    /\ UNCHANGED << script, topics, stub, run, i, prompt, response, filename,
                    ret, error, fs, prevFs, fsBefore, nreq, calls, written,
                    startAt, started, ended, stdout, now, replies, raised >>

\* the operator runs the same script again in the same directory
Rerun ==
    /\ pc \in {"done", "crashed"}
    /\ run < MaxRuns
    /\ run' = run + 1
    /\ prevFs' = fs
    /\ fsBefore' = fs
    /\ pc' = "main"
    /\ i' = 1
    /\ prompt' = ""
    /\ response' = NoResponse
    /\ filename' = ""
    /\ ret' = ""
    /\ error' = "none"
    /\ calls' = << >>
    /\ replies' = << >>
    /\ raised' = "none"
    /\ written' = << >>
    /\ startAt' = << >>
    /\ started' = {}
    /\ ended' = {}
    /\ stdout' = << >>
    /\ UNCHANGED << script, topics, stub, fs, nreq, now >>

\* the steps of the interpreter
Step ==
    \/ CallXxx
    \/ GenerateContentReturns
    \/ GenerateContentRaises
    \/ OpenFile
    \/ WriteFile
    \/ WriteRaises
    \/ SleepBegin
    \/ SleepEnd
    \/ Return
    \/ CallDownload
    \/ DownloadReturns
    \/ DownloadRaises
    \/ Finish

Next == Step \/ Rerun

Spec == Init /\ [][Next]_vars

\* a started interpreter keeps executing; nobody is obliged to run the script again
FairSpec == Spec /\ WF_vars(Step)

---------------------------------------------------------------------------
(* Properties. *)

\* the call of xxx for call site k has returned
Returned(k) == script \in BatchScripts /\ k \in 1..Len(topics) /\ k < i

\* the files this run has produced
FilesProduced == Range(written)

\* C1: when a call of xxx has just returned, the file <topic>.md exists, its
\* whole content is the text the service returned for the payload
\* topic + template (the echo of that payload, for the echoing stub), and the
\* call returned that file name.
C1_FileHoldsServiceText ==
    (Returned(i - 1) /\ pc = "main" /\ topics[i - 1] # "") =>
        LET topic == topics[i - 1]
            name == topic \o ".md"
        IN  /\ name \in DOMAIN fs
            /\ ret = name
            /\ calls[i - 1] = topic \o Template(script)
            /\ replies[i - 1].hasText
            /\ fs[name] = replies[i - 1].text
            /\ stub.mode = "echo" =>
                   fs[name] = "STUB:" \o topic \o Template(script)

C1_Witness ==
    /\ Returned(i - 1)
    /\ pc = "main"
    /\ stub.mode = "echo"
    /\ ret = topics[i - 1] \o ".md"
    /\ fs[ret] = "STUB:" \o topics[i - 1] \o Template(script)

\* every completed write is that of the call site in the same position, and
\* a request is issued only when the writes of all earlier call sites are done
WritesPrecedeRequests ==
    script \in BatchScripts =>
        /\ Len(calls) <= Len(written) + 1
        /\ Len(written) <= Len(calls)
        /\ \A k \in 1..Len(written) :
              /\ written[k] = topics[k] \o ".md"
              /\ written[k] \in DOMAIN fs

\* C2 as stated: after a batch run in which the service always succeeded,
\* exactly N output files have been produced for the N topics of the list,
\* each written before the next request is issued.
C2_ExactlyNFiles ==
    /\ WritesPrecedeRequests
    /\ (script \in BatchScripts /\ pc = "done") =>
           Cardinality(FilesProduced) = Len(topics)

\* C2 amended: after such a run N writes have been performed, one per call
\* site and in list order, each completed before the next request is issued,
\* and the number of output files produced is the number of distinct topics
\* of the list (N when the topics are pairwise distinct).
C2_NWritesInOrder ==
    /\ WritesPrecedeRequests
    /\ (script \in BatchScripts /\ pc = "done") =>
           /\ Len(written) = Len(topics)
           /\ Len(calls) = Len(topics)
           /\ Cardinality(FilesProduced) = Cardinality(Range(topics))
           /\ (Cardinality(Range(topics)) = Len(topics)) =>
                  Cardinality(FilesProduced) = Len(topics)

C2_Witness ==
    /\ script \in BatchScripts
    /\ pc = "done"
    /\ Len(topics) = 3
    /\ Len(written) = 3
    /\ Cardinality(FilesProduced) = 2

\* C3: when the service fails on the k-th topic of a run in a fresh
\* directory, the run ends with the failure uncaught, exactly the k-1 files
\* of the topics before it exist, and no request was issued after the k-th.
C3_FailureLeavesKMinus1Files ==
    (script \in BatchScripts /\ run = 1 /\ raised # "none") =>
        LET k == Len(calls)
        IN  /\ pc = "crashed"
            /\ error # "none"
            /\ i = k
            /\ Cardinality(DOMAIN fs) = k - 1
            /\ DOMAIN fs = { topics[j] \o ".md" : j \in 1..(k - 1) }

\* C4: in every batch script, each call that is followed by another has
\* waited after its write and before the next request, and the starts of
\* two successive calls are at least the script's delay apart.
C4_WaitBetweenCalls ==
    script \in BatchScripts =>
        /\ \A k \in 1..(Len(calls) - 1) : Op("sleep", k) \in ended
        /\ \A k \in 1..(Len(startAt) - 1) :
              startAt[k + 1] - startAt[k] >= Delay(script)

\* the same for the scripts whose xxx calls time.sleep
PacedScriptsWait ==
    script \in PacedScripts =>
        /\ \A k \in 1..(Len(calls) - 1) : Op("sleep", k) \in ended
        /\ \A k \in 1..(Len(startAt) - 1) :
              startAt[k + 1] - startAt[k] >= Delay(script)

\* the service is the stub that echoes its input and never fails
EchoingService == stub.mode = "echo" /\ stub.failAt = 0

\* C5: when a batch has been run again with the same topic list and the
\* echoing service, the directory holds the same files with the same
\* contents as after the run before.
C5_RerunLeavesSameFiles ==
    (script \in BatchScripts /\ EchoingService /\ run > 1 /\ pc = "done") =>
        /\ DOMAIN fs = DOMAIN prevFs
        /\ \A n \in DOMAIN fs : fs[n] = prevFs[n]

C5_Witness ==
    /\ script \in BatchScripts
    /\ EchoingService
    /\ run > 1
    /\ pc = "done"
    /\ Len(written) >= 2
    /\ fs = prevFs
    /\ \A n \in FilesProduced : n \in DOMAIN prevFs /\ prevFs[n] # ""

\* the two messages of download_youtube_video_1080p_mp4
SuccessMessage == "Video downloaded successfully to " \o "D:/"

ErrorMessage(e) == "An error occurred: " \o e

\* C6: in yb.py no exception leaves download_youtube_video_1080p_mp4: the
\* run never ends with an error, and once the call has returned exactly one
\* message has been printed, the success message if and only if the download
\* raised nothing, the error message otherwise.
C6_DownloadErrorsAreReported ==
    script = "yb.py" =>
        /\ error = "none"
        /\ pc # "crashed"
        /\ (pc = "download") => stdout = << >>
        /\ (pc \in {"main", "done"} /\ i > 1) =>
              /\ Len(stdout) = 1
              /\ (stdout[1] = SuccessMessage) <=> (raised = "none")
              /\ (raised # "none") => stdout[1] = ErrorMessage(raised)

C6_Witness ==
    /\ script = "yb.py"
    /\ pc = "done"
    /\ raised = "DownloadError"
    /\ stdout = << "An error occurred: DownloadError" >>

\* the operations a completed call of xxx has performed
OpsOfCall(k) ==
    {Op("request", k), Op("write", k)}
        \cup (IF script \in PacedScripts THEN {Op("sleep", k)} ELSE {})

\* C7: at most one operation is in progress, it belongs to the call site
\* being executed, and an operation of a call site has started only when
\* every operation of the call sites before it has completed.
C7_OneOperationAtATime ==
    script \in BatchScripts =>
        /\ Cardinality(InProgress) <= 1
        /\ \A o \in InProgress : o.call = i
        /\ \A o \in started : \A k \in 1..(o.call - 1) :
              /\ OpsOfCall(k) \subseteq ended
              /\ \A e \in started : e.call = k => e \in ended

C7_Witness ==
    /\ script \in PacedScripts
    /\ InProgress = {Op("request", 2)}
    /\ OpsOfCall(1) \subseteq ended

\* the call sites whose topic derives the file name n
SitesOf(n) == { k \in 1..Len(topics) : topics[k] \o ".md" = n }

Last(S) == CHOOSE k \in S : \A j \in S : j <= k

\* C8: after a run in which every call succeeded, a file name derived by
\* several topics holds the generation result of the last of them in list
\* order, and the number of files produced is the number of distinct file
\* names, not the number of calls.
C8_LastWriteWins ==
    (script \in BatchScripts /\ pc = "done") =>
        /\ \A n \in FilesProduced :
              /\ SitesOf(n) # {}
              /\ fs[n] = replies[Last(SitesOf(n))].text
        /\ Cardinality(FilesProduced) =
              Cardinality({ topics[k] \o ".md" : k \in 1..Len(topics) })
        /\ Cardinality(FilesProduced) <= Len(calls)

C8_Witness ==
    /\ script \in BatchScripts
    /\ pc = "done"
    /\ \E a, b \in 1..Len(topics) :
          /\ a < b
          /\ topics[a] = topics[b]
          /\ replies[a].text # replies[b].text
          /\ fs[topics[a] \o ".md"] = replies[b].text
    /\ Cardinality(FilesProduced) < Len(calls)

\* the requests of this run so far are those of the first call sites, one
\* each and in list order
AttemptedInOrder ==
    script \in BatchScripts =>
        /\ Len(calls) <= Len(topics)
        /\ \A k \in 1..Len(calls) : calls[k] = topics[k] \o Template(script)
        /\ (pc = "done") => Len(calls) = Len(topics)
        /\ (pc = "crashed") => (raised # "none" /\ i = Len(calls))
        /\ (raised # "none") => pc = "crashed"

RunIsOver == pc \in {"done", "crashed"}

\* C9: every run ends, after the whole list or at the first failure, and
\* what it has attempted by then is each topic up to that point exactly once,
\* in list order.
C9_RunTerminates == []AttemptedInOrder /\ []<>RunIsOver

C9_Witness ==
    /\ script \in BatchScripts
    /\ pc = "crashed"
    /\ Len(topics) = 3
    /\ Len(calls) = 2

\* C10: a call of xxx that failed has left the directory as it found it.
C10_FailedCallLeavesFilesAlone ==
    (script \in BatchScripts /\ pc = "crashed") =>
        /\ DOMAIN fs = DOMAIN fsBefore
        /\ \A n \in DOMAIN fs : fs[n] = fsBefore[n]

===========================================================================
